---- MODULE Spec2Model ----
(***************************************************************************)
(* Model of ThreadActorProxy (src/firefox/actorProxy/thread.ts): the       *)
(* client-side coordinator of one Firefox thread actor.  The control       *)
(* operations and the inbound message handler are the actions; doNext is   *)
(* an operator on the record of the proxy's fields, applied inside the     *)
(* actions that call it.                                                   *)
(***************************************************************************)
EXTENDS Integers, Sequences, FiniteSets, TLC

MaxEval == 2      \* evaluate() calls that are accepted in one run
MaxFrames == 2    \* fetchStackFrames() calls that are accepted in one run
MaxOps == 2       \* pause-scoped operations outstanding at once

\* The k-th clientEvaluated event carries a return value of Values(k) and the
\* k-th frames response a frame list of FrameLists(k): distinct events carry
\* distinct payloads, so a promise settled with another event's payload shows.
Values(k) == {10 * k}
FrameLists(k) == {<<k>>}

Null == 0   \* pendingEvaluateRequest: null

States == {"paused", "running", "stepOver", "stepInto", "stepOut"}

VARIABLES
    desiredState,                     \* thread.ts:29
    paused,                           \* thread.ts:35
    operationsRunningOnPausedThread,  \* thread.ts:43
    pendingFrameRequests,             \* thread.ts:49, ids of the fetch calls, oldest first
    queuedEvaluateRequests,           \* thread.ts:55, ids of the evaluate calls, oldest first
    pendingEvaluateRequest,           \* thread.ts:56, id of the evaluate call or Null
    evalDeferred,                     \* the promise returned by the i-th accepted evaluate()
    frameDeferred,                    \* the promise returned by the i-th accepted fetchStackFrames()
    frameSettles,                     \* how often resolve/reject was invoked on each frame promise
    sent,                             \* wire requests sent by the last step (connection.sendRequest)
    emitted,                          \* notifications emitted by the last step (this.emit)
    evalSent,                         \* ids of all clientEvaluate requests sent, in order
    evalEvents,                       \* return values of all clientEvaluated events received
    frameEvents,                      \* frame lists of all frames responses received
    callbacks,                        \* completion callbacks handed out and not yet called
    startedRunning,                   \* the operations last started found the thread running
    lastOp,                           \* the operation or message of the last step
    ret,                              \* what the last call returned / how the promise started
    net                               \* the connection and the remote thread, where they are modelled

vars == <<desiredState, paused, operationsRunningOnPausedThread, pendingFrameRequests,
          queuedEvaluateRequests, pendingEvaluateRequest, evalDeferred, frameDeferred,
          frameSettles, sent, emitted, evalSent, evalEvents, frameEvents, callbacks,
          startedRunning, lastOp, ret, net>>

\* the fields of the proxy that the control surface and doNext read and write
core == <<desiredState, paused, operationsRunningOnPausedThread, pendingFrameRequests,
          queuedEvaluateRequests, pendingEvaluateRequest>>

----------------------------------------------------------------------------
\* Wire requests (connection.sendRequest) and promises

Req(t, limit, id) == [type |-> t, limit |-> limit, id |-> id]
AttachReq == Req("attach", "none", 0)
SourcesReq == Req("sources", "none", 0)
InterruptReq == Req("interrupt", "none", 0)
FramesReq == Req("frames", "none", 0)
ResumeReq(limit) == Req("resume", limit, 0)
ClientEvaluateReq(id) == Req("clientEvaluate", "none", id)

Unused == [st |-> "unused", val |-> 0, why |-> ""]
Pending == [st |-> "pending", val |-> 0, why |-> ""]
Fulfilled(v) == [st |-> "fulfilled", val |-> v, why |-> ""]
Rejected(why) == [st |-> "rejected", val |-> 0, why |-> why]

FUnused == [st |-> "unused", val |-> <<>>, why |-> ""]
FPending == [st |-> "pending", val |-> <<>>, why |-> ""]
FFulfilled(v) == [st |-> "fulfilled", val |-> v, why |-> ""]
FRejected(why) == [st |-> "rejected", val |-> <<>>, why |-> why]

\* a promise settles once: later resolve/reject calls change nothing
Settle(d, new) == IF d.st = "pending" THEN new ELSE d

RECURSIVE RejectEach(_, _, _)
RejectEach(defs, ids, why) ==
    IF ids = <<>> THEN defs
    ELSE RejectEach([defs EXCEPT ![Head(ids)] = Settle(@, why)], Tail(ids), why)

RECURSIVE BumpEach(_, _)
BumpEach(cnt, ids) ==
    IF ids = <<>> THEN cnt
    ELSE BumpEach([cnt EXCEPT ![Head(ids)] = @ + 1], Tail(ids))

\* number of accepted evaluate() / fetchStackFrames() calls so far
EvalCalls == Cardinality({i \in 1..MaxEval : evalDeferred[i].st # "unused"})
FrameCalls == Cardinality({i \in 1..MaxFrames : frameDeferred[i].st # "unused"})

----------------------------------------------------------------------------
\* The proxy's fields as one record, so that handlers compose with doNext

Fields == [desiredState |-> desiredState,
           paused |-> paused,
           ops |-> operationsRunningOnPausedThread,
           frameQ |-> pendingFrameRequests,
           evalQ |-> queuedEvaluateRequests,
           pendingEval |-> pendingEvaluateRequest,
           evalDeferred |-> evalDeferred,
           frameDeferred |-> frameDeferred,
           frameSettles |-> frameSettles,
           sent |-> <<>>,
           emitted |-> <<>>,
           evalSent |-> evalSent,
           net |-> net]

Store(s) ==
    /\ desiredState' = s.desiredState
    /\ paused' = s.paused
    /\ operationsRunningOnPausedThread' = s.ops
    /\ pendingFrameRequests' = s.frameQ
    /\ queuedEvaluateRequests' = s.evalQ
    /\ pendingEvaluateRequest' = s.pendingEval
    /\ evalDeferred' = s.evalDeferred
    /\ frameDeferred' = s.frameDeferred
    /\ frameSettles' = s.frameSettles
    /\ sent' = s.sent
    /\ emitted' = s.emitted
    /\ evalSent' = s.evalSent
    /\ net' = s.net

\* connection.sendRequest: the request goes out; where the remote thread is
\* modelled it joins the requests in transit, marked with whether an operation
\* started by runOnPausedThread was outstanding when it was sent
Send(s, req) ==
    [s EXCEPT !.sent = Append(@, req),
              !.net.wire = IF s.net.tracked
                           THEN Append(@, [req |-> req, forOp |-> s.ops > 0])
                           ELSE @]
Emit(s, event, why) == [s EXCEPT !.emitted = Append(@, <<event, why>>)]

\* sendPauseRequest without line 78: the request is sent, the flag is not set
sendPauseRequestKeepsFlag(s) == Send(s, InterruptReq)

\* thread.ts:73-79
sendPauseRequest(s) == [Send(s, InterruptReq) EXCEPT !.paused = TRUE]

\* the resumeLimit types of stepOver and stepInto swapped
ResumeLimitSwapped(state) ==
    CASE state = "running" -> "none"
      [] state = "stepOver" -> "step"
      [] state = "stepInto" -> "next"
      [] state = "stepOut" -> "finish"

\* the resume request doNext sends for a desiredState other than 'paused'
ResumeLimitOf(state) ==
    CASE state = "running" -> "none"
      [] state = "stepOver" -> "next"
      [] state = "stepInto" -> "step"
      [] state = "stepOut" -> "finish"

\* thread.ts:156-191, the switch on desiredState
doNextDesired(s) ==
    IF s.desiredState = "paused"
    THEN IF ~s.paused THEN sendPauseRequest(s) ELSE s
    ELSE IF s.paused
         THEN [Send(s, ResumeReq(ResumeLimitOf(s.desiredState))) EXCEPT !.paused = FALSE]
         ELSE s

\* doNextQueued taking the newest queued request (pop) instead of the oldest (shift)
doNextQueuedNewestFirst(s) ==
    IF s.paused
    THEN LET id == s.evalQ[Len(s.evalQ)]
         IN [Send(s, ClientEvaluateReq(id)) EXCEPT
                !.evalQ = SubSeq(@, 1, Len(@) - 1),
                !.pendingEval = id,
                !.evalSent = Append(@, id),
                !.paused = FALSE]
    ELSE [s EXCEPT !.evalDeferred = RejectEach(@, s.evalQ, Rejected("Thread is running"))]

\* thread.ts:136-153, an evaluate request is queued and none is pending
doNextQueued(s) ==
    IF s.paused
    THEN LET id == Head(s.evalQ)
         IN [Send(s, ClientEvaluateReq(id)) EXCEPT
                !.evalQ = Tail(@),
                !.pendingEval = id,
                !.evalSent = Append(@, id),
                !.paused = FALSE]
    ELSE \* every queued request is rejected; the array itself is left as it is
         [s EXCEPT !.evalDeferred = RejectEach(@, s.evalQ, Rejected("Thread is running"))]

\* thread.ts:129-134, an evaluate request is pending
doNextPending(s) ==
    IF s.paused
    THEN [Send(s, ResumeReq("none")) EXCEPT !.paused = FALSE]
    ELSE s

\* doNext without the test of line 121: outstanding operations are not looked at
doNextIgnoringOperations(s) ==
    IF s.pendingEval # Null THEN doNextPending(s)
    ELSE IF Len(s.evalQ) > 0 THEN doNextQueued(s)
    ELSE doNextDesired(s)

\* doNext looking at the queue before the pending request
doNextQueueFirst(s) ==
    IF s.ops > 0 THEN s
    ELSE IF Len(s.evalQ) > 0 THEN doNextQueued(s)
    ELSE IF s.pendingEval # Null THEN doNextPending(s)
    ELSE doNextDesired(s)

\* thread.ts:119-194
doNext(s) ==
    IF s.ops > 0 THEN s
    ELSE IF s.pendingEval # Null THEN doNextPending(s)
    ELSE IF Len(s.evalQ) > 0 THEN doNextQueued(s)
    ELSE doNextDesired(s)

----------------------------------------------------------------------------
\* the connection with the remote thread left out: inbound messages arrive freely
NoNet == [tracked |-> FALSE, wire |-> <<>>, inbox |-> <<>>,
          remotePaused |-> TRUE, evaluating |-> FALSE]

\* the fields after construction
Constructed ==
    /\ desiredState = "paused"
    /\ paused = TRUE
    /\ operationsRunningOnPausedThread = 0
    /\ pendingFrameRequests = <<>>
    /\ queuedEvaluateRequests = <<>>
    /\ pendingEvaluateRequest = Null
    /\ evalDeferred = [i \in 1..MaxEval |-> Unused]
    /\ frameDeferred = [i \in 1..MaxFrames |-> FUnused]
    /\ frameSettles = [i \in 1..MaxFrames |-> 0]
    /\ sent = <<AttachReq, SourcesReq>>
    /\ emitted = <<>>
    /\ evalSent = <<>>
    /\ evalEvents = <<>>
    /\ frameEvents = <<>>
    /\ callbacks = 0
    /\ startedRunning = FALSE
    /\ lastOp = "constructor"
    /\ ret = "none"

Init ==
    /\ Constructed
    /\ net = NoNet

history == <<evalEvents, frameEvents, callbacks, startedRunning>>

\* thread.ts:199-208
Interrupt ==
    /\ LET s == [Fields EXCEPT !.desiredState = "paused"]
       IN Store(IF ~s.paused THEN sendPauseRequest(s) ELSE s)
    /\ lastOp' = "interrupt"
    /\ ret' = "none"
    /\ UNCHANGED history

\* PendingRequests.enqueue (pendingRequests.ts, described in spec.md 2 and 3)
enqueue(s, id) ==
    [s EXCEPT !.frameQ = Append(@, id), !.frameDeferred[id] = FPending]

\* PendingRequests.resolveOne: the oldest outstanding request is fulfilled
resolveOne(s, frames) ==
    IF s.frameQ = <<>> THEN s
    ELSE LET id == Head(s.frameQ)
         IN [s EXCEPT !.frameQ = Tail(@),
                      !.frameDeferred[id] = Settle(@, FFulfilled(frames)),
                      !.frameSettles[id] = @ + 1]

\* PendingRequests.rejectAll: every outstanding request is rejected
rejectAll(s, why) ==
    [s EXCEPT !.frameQ = <<>>,
              !.frameDeferred = RejectEach(@, s.frameQ, FRejected(why)),
              !.frameSettles = BumpEach(@, s.frameQ)]

\* fetchStackFrames without the test of line 221
FetchStackFramesUnchecked ==
    /\ lastOp' = "fetchStackFrames"
    /\ UNCHANGED history
    /\ IF desiredState # "paused"
       THEN Store(Fields) /\ ret' = "not paused"
       ELSE /\ FrameCalls < MaxFrames
            /\ Store(Send(enqueue(Fields, FrameCalls + 1), FramesReq))
            /\ ret' = "pending"

\* thread.ts:210-232
FetchStackFrames ==
    /\ lastOp' = "fetchStackFrames"
    /\ UNCHANGED history
    /\ IF desiredState # "paused"
       THEN Store(Fields) /\ ret' = "not paused"
       ELSE IF paused
            THEN /\ FrameCalls < MaxFrames
                 /\ Store(Send(enqueue(Fields, FrameCalls + 1), FramesReq))
                 /\ ret' = "pending"
            ELSE Store(Fields) /\ ret' = "not paused"

\* resume and the step calls without the test of desiredState
StepCallUnchecked(name, target) ==
    /\ lastOp' = name
    /\ UNCHANGED history
    /\ Store(doNext([Fields EXCEPT !.desiredState = target]))
    /\ ret' = IF desiredState # "paused" THEN "ignored" ELSE "none"

\* thread.ts:234-288, the body shared by resume, stepOver, stepInto and stepOut
StepCall(name, target) ==
    /\ lastOp' = name
    /\ UNCHANGED history
    /\ IF desiredState # "paused"
       THEN Store(Fields) /\ ret' = "ignored"
       ELSE Store(doNext([Fields EXCEPT !.desiredState = target])) /\ ret' = "none"

\* thread.ts:234-246
Resume == StepCall("resume", "running")

\* thread.ts:248-260
StepOver == StepCall("stepOver", "stepOver")

\* thread.ts:262-274
StepInto == StepCall("stepInto", "stepInto")

\* thread.ts:276-288
StepOut == StepCall("stepOut", "stepOut")

\* thread.ts:290-306
Evaluate ==
    /\ lastOp' = "evaluate"
    /\ UNCHANGED history
    /\ IF desiredState # "paused"
       THEN Store(Fields) /\ ret' = "not paused"
       ELSE /\ EvalCalls < MaxEval
            /\ LET id == EvalCalls + 1
                   s == [Fields EXCEPT !.evalQ = Append(@, id),
                                       !.evalDeferred[id] = Pending]
               IN Store(doNext(s))
            /\ ret' = "pending"

\* thread.ts:87-101; the operation keeps the completion callback for later
RunOnPausedThread ==
    /\ operationsRunningOnPausedThread < MaxOps
    /\ lastOp' = "runOnPausedThread"
    /\ ret' = "none"
    /\ LET s == [Fields EXCEPT !.ops = @ + 1]
       IN Store(IF ~s.paused THEN sendPauseRequest(s) ELSE s)
    /\ callbacks' = callbacks + 1
    /\ startedRunning' = IF operationsRunningOnPausedThread = 0
                         THEN ~paused /\ desiredState = "running"
                         ELSE startedRunning
    /\ UNCHANGED <<evalEvents, frameEvents>>

\* operationFinishedOnPausedThread without the call of doNext in line 111
OperationFinishedNoDoNext ==
    /\ callbacks > 0
    /\ lastOp' = "operationFinished"
    /\ ret' = "none"
    /\ Store([Fields EXCEPT !.ops = @ - 1])
    /\ callbacks' = callbacks - 1
    /\ UNCHANGED <<evalEvents, frameEvents, startedRunning>>

\* thread.ts:106-112, a completion callback is called (each at most once)
OperationFinished ==
    /\ callbacks > 0
    /\ lastOp' = "operationFinished"
    /\ ret' = "none"
    /\ Store(doNext([Fields EXCEPT !.ops = @ - 1]))
    /\ callbacks' = callbacks - 1
    /\ UNCHANGED <<evalEvents, frameEvents, startedRunning>>

Message(name) ==
    /\ lastOp' = name
    /\ ret' = "none"

\* thread.ts:321-329
Interrupted(s) ==
    LET p == [s EXCEPT !.paused = TRUE]
    IN IF p.desiredState = "paused" THEN Emit(p, "paused", "interrupted") ELSE p

\* thread.ts:321-329
ReceiveInterrupted ==
    /\ Message("paused:interrupted")
    /\ Store(Interrupted(Fields))
    /\ UNCHANGED history

\* thread.ts:331-345, the body shared by resumeLimit and breakpoint
PausedAt(s, why) ==
    Emit(doNext([s EXCEPT !.paused = TRUE, !.desiredState = "paused"]), "paused", why)

\* thread.ts:331-337
ReceiveResumeLimit ==
    /\ Message("paused:resumeLimit")
    /\ Store(PausedAt(Fields, "resumeLimit"))
    /\ UNCHANGED history

\* thread.ts:339-345
ReceiveBreakpoint ==
    /\ Message("paused:breakpoint")
    /\ Store(PausedAt(Fields, "breakpoint"))
    /\ UNCHANGED history

\* the clientEvaluated handler emitting before doNext has run
ClientEvaluatedEmitsFirst(s, v) ==
    LET p == [s EXCEPT !.paused = TRUE]
    IN IF p.pendingEval = Null THEN p
       ELSE Emit(doNext([p EXCEPT !.evalDeferred[p.pendingEval] = Settle(@, Fulfilled(v)),
                                  !.pendingEval = Null]),
                 "paused", "clientEvaluated")

\* the clientEvaluated handler without line 349: paused is not set
ClientEvaluatedKeepsFlag(s, v) ==
    IF s.pendingEval = Null THEN s
    ELSE LET q == doNext([s EXCEPT !.evalDeferred[s.pendingEval] = Settle(@, Fulfilled(v)),
                                   !.pendingEval = Null])
         IN IF q.paused THEN Emit(q, "paused", "clientEvaluated") ELSE q

\* thread.ts:347-356; with no pending request line 350 throws a TypeError
ClientEvaluated(s, v) ==
    LET p == [s EXCEPT !.paused = TRUE]
    IN IF p.pendingEval = Null THEN p
       ELSE LET q == doNext([p EXCEPT !.evalDeferred[p.pendingEval] = Settle(@, Fulfilled(v)),
                                      !.pendingEval = Null])
            IN IF q.paused THEN Emit(q, "paused", "clientEvaluated") ELSE q

\* the remote answers a clientEvaluate request that it has not answered yet
ReceiveClientEvaluated ==
    /\ Len(evalEvents) < Len(evalSent)
    /\ Message("paused:clientEvaluated")
    /\ \E v \in Values(Len(evalEvents) + 1) :
         /\ Store(ClientEvaluated(Fields, v))
         /\ evalEvents' = Append(evalEvents, v)
    /\ UNCHANGED <<frameEvents, callbacks, startedRunning>>

\* thread.ts:317-319, 358-362, 365-367, 379-383, 393-395, 414-422: a paused event
\* with reason attached or with a reason that is not handled, and the messages
\* resumed, sources, detached, newGlobal and unknown ones, are only logged
ReceiveIgnored ==
    /\ Message("ignored")
    /\ Store(Fields)
    /\ UNCHANGED history

\* thread.ts:369-377
ReceiveNewSource ==
    /\ Message("newSource")
    /\ Store(Emit(Fields, "newSource", ""))
    /\ UNCHANGED history

\* the frames handler resolving two outstanding requests with one response
ReceiveFramesTwice ==
    /\ Len(frameEvents) < FrameCalls
    /\ Message("frames")
    /\ \E frames \in FrameLists(Len(frameEvents) + 1) :
         /\ Store(resolveOne(resolveOne(Fields, frames), frames))
         /\ frameEvents' = Append(frameEvents, frames)
    /\ UNCHANGED <<evalEvents, callbacks, startedRunning>>

\* thread.ts:385-391; the remote answers a frames request that it has not answered yet
ReceiveFrames ==
    /\ Len(frameEvents) < FrameCalls
    /\ Message("frames")
    /\ \E frames \in FrameLists(Len(frameEvents) + 1) :
         /\ Store(resolveOne(Fields, frames))
         /\ frameEvents' = Append(frameEvents, frames)
    /\ UNCHANGED <<evalEvents, callbacks, startedRunning>>

\* the exited handler running doNext like the paused handlers do
ReceiveExitedReconciles ==
    /\ Message("exited")
    /\ Store(Emit(doNext(rejectAll(Fields, "Exited")), "exited", ""))
    /\ UNCHANGED history

\* thread.ts:397-405
ReceiveExited ==
    /\ Message("exited")
    /\ Store(Emit(rejectAll(Fields, "Exited"), "exited", ""))
    /\ UNCHANGED history

\* thread.ts:406-412
ReceiveWrongState ==
    /\ Message("wrongState")
    /\ Store(Emit(Fields, "wrongState", ""))
    /\ UNCHANGED history

Next ==
    \/ Interrupt
    \/ FetchStackFrames
    \/ Resume
    \/ StepOver
    \/ StepInto
    \/ StepOut
    \/ Evaluate
    \/ RunOnPausedThread
    \/ OperationFinished
    \/ ReceiveInterrupted
    \/ ReceiveResumeLimit
    \/ ReceiveBreakpoint
    \/ ReceiveClientEvaluated
    \/ ReceiveIgnored
    \/ ReceiveNewSource
    \/ ReceiveFrames
    \/ ReceiveExited
    \/ ReceiveWrongState

Spec == Init /\ [][Next]_vars

----------------------------------------------------------------------------
\* The remote thread, for the claims that are about it: the requests sent are
\* in transit in net.wire, the remote thread handles them in order and its
\* messages are in transit in net.inbox until the connection delivers them, in
\* order, to receiveResponse.

MaxTransit == 2   \* requests and messages in transit at once

\* the thread is attached and paused, nothing is in transit
AttachedNet == [tracked |-> TRUE, wire |-> <<>>, inbox |-> <<>>,
                remotePaused |-> TRUE, evaluating |-> FALSE]

RemoteInit ==
    /\ Constructed
    /\ net = AttachedNet

InTransit == Len(net.wire) + Len(net.inbox)
CanSend == InTransit < MaxTransit

Event(type, forOp) == [type |-> type, forOp |-> forOp]
Answer(n, type, forOp) == [n EXCEPT !.inbox = Append(@, Event(type, forOp))]

\* what the remote thread does with one request: interrupt pauses it, resume
\* resumes it (and lets a suspended evaluation go on), clientEvaluate starts
\* an evaluation on the paused thread, which runs until it is done
Handled(n, m) ==
    CASE m.req.type = "interrupt" ->
            Answer([n EXCEPT !.remotePaused = TRUE], "interrupted", m.forOp)
      [] m.req.type = "resume" ->
            IF n.remotePaused
            THEN Answer([n EXCEPT !.remotePaused = FALSE], "resumed", FALSE)
            ELSE Answer(n, "wrongState", FALSE)
      [] m.req.type = "clientEvaluate" ->
            IF n.remotePaused /\ ~n.evaluating
            THEN [n EXCEPT !.remotePaused = FALSE, !.evaluating = TRUE]
            ELSE Answer(n, "wrongState", FALSE)
      [] OTHER -> n

\* a step of the remote thread: the proxy's fields stay as they are
RemoteStep(n) ==
    /\ net' = n
    /\ lastOp' = "remote"
    /\ ret' = "none"
    /\ sent' = <<>>
    /\ emitted' = <<>>
    /\ UNCHANGED <<core, evalDeferred, frameDeferred, frameSettles, evalSent, history>>

RemoteHandles ==
    /\ net.wire # <<>>
    /\ RemoteStep(Handled([net EXCEPT !.wire = Tail(@)], Head(net.wire)))

\* the evaluation ends: the thread pauses again and reports clientEvaluated
RemoteEvaluationDone ==
    /\ net.evaluating
    /\ ~net.remotePaused
    /\ RemoteStep(Answer([net EXCEPT !.remotePaused = TRUE, !.evaluating = FALSE],
                         "clientEvaluated", FALSE))

\* the running thread hits a breakpoint
RemoteBreakpoint ==
    /\ ~net.remotePaused
    /\ CanSend
    /\ RemoteStep(Answer([net EXCEPT !.remotePaused = TRUE], "breakpoint", FALSE))

\* the control operations, while the connection has room
RemoteInterrupt == CanSend /\ Interrupt
RemoteResume == CanSend /\ Resume
RemoteStepOver == CanSend /\ StepOver
RemoteStepInto == CanSend /\ StepInto
RemoteStepOut == CanSend /\ StepOut
RemoteEvaluate == CanSend /\ Evaluate
RemoteRunOnPausedThread == CanSend /\ RunOnPausedThread
RemoteOperationFinished == OperationFinished

\* the connection delivers the oldest message in transit to receiveResponse
Arrives(type) == net.inbox # <<>> /\ Head(net.inbox).type = type
Delivered == [Fields EXCEPT !.net.inbox = Tail(@)]

\* thread.ts:321-329
DeliverInterrupted ==
    /\ Arrives("interrupted")
    /\ Message("paused:interrupted")
    /\ Store(Interrupted(Delivered))
    /\ UNCHANGED history

\* thread.ts:339-345
DeliverBreakpoint ==
    /\ Arrives("breakpoint")
    /\ Message("paused:breakpoint")
    /\ Store(PausedAt(Delivered, "breakpoint"))
    /\ UNCHANGED history

\* thread.ts:347-356
DeliverClientEvaluated ==
    /\ Arrives("clientEvaluated")
    /\ Message("paused:clientEvaluated")
    /\ \E v \in Values(Len(evalEvents) + 1) :
         /\ Store(ClientEvaluated(Delivered, v))
         /\ evalEvents' = Append(evalEvents, v)
    /\ UNCHANGED <<frameEvents, callbacks, startedRunning>>

\* thread.ts:365-367
DeliverResumed ==
    /\ Arrives("resumed")
    /\ Message("ignored")
    /\ Store(Delivered)
    /\ UNCHANGED history

\* thread.ts:406-412
DeliverWrongState ==
    /\ Arrives("wrongState")
    /\ Message("wrongState")
    /\ Store(Emit(Delivered, "wrongState", ""))
    /\ UNCHANGED history

RemoteNext ==
    \/ RemoteInterrupt
    \/ RemoteResume
    \/ RemoteStepOver
    \/ RemoteStepInto
    \/ RemoteStepOut
    \/ RemoteEvaluate
    \/ RemoteRunOnPausedThread
    \/ RemoteOperationFinished
    \/ RemoteHandles
    \/ RemoteEvaluationDone
    \/ RemoteBreakpoint
    \/ DeliverInterrupted
    \/ DeliverBreakpoint
    \/ DeliverClientEvaluated
    \/ DeliverResumed
    \/ DeliverWrongState

RemoteSpec == RemoteInit /\ [][RemoteNext]_vars

\* every request is handled, every message delivered, every evaluation that
\* runs ends and every operation calls its completion callback
FairRemoteSpec ==
    /\ RemoteSpec
    /\ WF_vars(RemoteHandles)
    /\ WF_vars(RemoteEvaluationDone)
    /\ WF_vars(DeliverInterrupted)
    /\ WF_vars(DeliverBreakpoint)
    /\ WF_vars(DeliverClientEvaluated)
    /\ WF_vars(DeliverResumed)
    /\ WF_vars(DeliverWrongState)
    /\ WF_vars(RemoteOperationFinished)

----------------------------------------------------------------------------
\* doNext as a function of the fields, applied to field values drawn from
\* bounded sets: n evaluate calls were accepted, the first k of them were taken
\* out of the queue, and the k-th is still pending or was fulfilled.

DoNextInit ==
    /\ desiredState \in States
    /\ paused \in BOOLEAN
    /\ operationsRunningOnPausedThread \in 0..MaxOps
    /\ pendingFrameRequests = <<>>
    /\ frameDeferred = [i \in 1..MaxFrames |-> FUnused]
    /\ frameSettles = [i \in 1..MaxFrames |-> 0]
    /\ frameEvents = <<>>
    /\ \E n \in 0..MaxEval, k \in 0..MaxEval, active \in BOOLEAN :
         /\ k <= n
         /\ active => k > 0
         /\ queuedEvaluateRequests = [i \in 1..(n - k) |-> k + i]
         /\ pendingEvaluateRequest = IF active THEN k ELSE Null
         /\ evalSent = [i \in 1..k |-> i]
         /\ evalEvents = [i \in 1..(IF active THEN k - 1 ELSE k) |-> 10 * i]
         /\ evalDeferred = [i \in 1..MaxEval |->
                              IF i > n THEN Unused
                              ELSE IF i > k \/ (active /\ i = k) THEN Pending
                              ELSE Fulfilled(10 * i)]
    /\ callbacks = operationsRunningOnPausedThread
    /\ startedRunning = FALSE
    /\ sent = <<>>
    /\ emitted = <<>>
    /\ lastOp = "input"
    /\ ret = "none"
    /\ net = NoNet

\* thread.ts:119-194
DoNextRuns ==
    /\ lastOp = "input"
    /\ lastOp' = "doNext"
    /\ ret' = "none"
    /\ Store(doNext(Fields))
    /\ UNCHANGED history

\* thread.ts:339-345, a breakpoint is hit after doNext has run
DoNextThenBreakpoint ==
    /\ lastOp = "doNext"
    /\ ReceiveBreakpoint

DoNextNext ==
    \/ DoNextRuns
    \/ DoNextThenBreakpoint

DoNextSpec == DoNextInit /\ [][DoNextNext]_vars

----------------------------------------------------------------------------
\* Claims

Settled(d) == d.st \in {"fulfilled", "rejected"}
Types(reqs) == {reqs[i].type : i \in 1..Len(reqs)}
StepOps == {"resume", "stepOver", "stepInto", "stepOut"}
NoEvaluate == pendingEvaluateRequest = Null /\ queuedEvaluateRequests = <<>>
PausedNote(why) == << <<"paused", why>> >>

\* C1: in every reachable state operationsRunningOnPausedThread is not negative,
\* and while it is positive the thread is assumed paused.
C1_PausedWhileOperationsRun ==
    /\ operationsRunningOnPausedThread >= 0
    /\ operationsRunningOnPausedThread > 0 => paused

\* an operation is outstanding although the thread is wanted running, and the last
\* step ran doNext (another operation finished)
C1_Witness ==
    /\ operationsRunningOnPausedThread > 0
    /\ desiredState = "running"
    /\ lastOp = "operationFinished"

\* C2: the clientEvaluate requests sent and not yet answered are 0 or 1, there is
\* one exactly when pendingEvaluateRequest is set, and the pending request is not
\* in queuedEvaluateRequests.
C2_OneEvaluateInFlight ==
    LET inFlight == Len(evalSent) - Len(evalEvents)
    IN /\ inFlight \in {0, 1}
       /\ inFlight = 1 <=> pendingEvaluateRequest # Null
       /\ \A i \in 1..Len(queuedEvaluateRequests) :
            queuedEvaluateRequests[i] # pendingEvaluateRequest

\* a request is in flight while another one waits in the queue
C2_Witness ==
    /\ pendingEvaluateRequest # Null
    /\ queuedEvaluateRequests # <<>>
    /\ operationsRunningOnPausedThread = 0

\* C3: clientEvaluate requests are sent in the order of the evaluate calls, each
\* only after the promise of the one before it has settled, and the i-th
\* clientEvaluated event fulfills the i-th call's promise with the event's value.
C3_EvaluateInCallOrder ==
    /\ \A i \in 1..Len(evalSent) : evalSent[i] = i
    /\ \A i \in 1..(Len(evalSent) - 1) : Settled(evalDeferred[evalSent[i]])
    /\ \A i \in 1..Len(evalEvents) : evalDeferred[i] = Fulfilled(evalEvents[i])

\* the second of two evaluate calls is sent by the step that receives the first's
\* clientEvaluated event
C3_Witness ==
    /\ lastOp = "paused:clientEvaluated"
    /\ Len(evalEvents) = 1
    /\ evalDeferred[1].st = "fulfilled"
    /\ sent = <<ClientEvaluateReq(2)>>

\* C4: as long as no frame request was rejected by an exit, the i-th frames
\* response fulfills the promise of the i-th accepted fetchStackFrames call with
\* its frame list, and no promise is settled more than once.
C4_FramesFifo ==
    /\ \A i \in 1..MaxFrames : frameSettles[i] <= 1
    /\ (\A j \in 1..MaxFrames : frameDeferred[j].st # "rejected")
         => \A i \in 1..Len(frameEvents) : frameDeferred[i] = FFulfilled(frameEvents[i])

\* two calls were outstanding together and both have been answered
C4_Witness ==
    /\ Len(frameEvents) = 2
    /\ frameDeferred[1].st = "fulfilled"
    /\ frameDeferred[2].st = "fulfilled"
    /\ lastOp = "frames"
    /\ pendingFrameRequests = <<>>

\* C5: an interrupt() call leaves desiredState 'paused' and paused true and sends
\* one interrupt request if the thread was running and none otherwise; a call
\* that directly follows another interrupt() call sends nothing and changes no field.
C5_InterruptIdempotent ==
    [][lastOp' = "interrupt" =>
         /\ desiredState' = "paused"
         /\ paused'
         /\ sent' = (IF paused THEN <<>> ELSE <<InterruptReq>>)
         /\ lastOp = "interrupt" => (sent' = <<>> /\ UNCHANGED core)]_vars

\* the first interrupt() of a run of calls found the thread running and sent a request
C5_Witness ==
    /\ lastOp = "interrupt"
    /\ sent = <<InterruptReq>>
    /\ desiredState = "paused"
    /\ paused

\* C6: an exited message rejects every outstanding frame request with 'Exited',
\* empties the queue of frame requests, emits one 'exited' notification, sends
\* nothing and leaves the other fields alone.
C6_ExitedRejectsFrames ==
    [][lastOp' = "exited" =>
         /\ pendingFrameRequests' = <<>>
         /\ \A i \in 1..MaxFrames :
              frameDeferred'[i] =
                 IF \E k \in 1..Len(pendingFrameRequests) : pendingFrameRequests[k] = i
                 THEN FRejected("Exited")
                 ELSE frameDeferred[i]
         /\ emitted' = << <<"exited", "">> >>
         /\ sent' = <<>>
         /\ UNCHANGED <<desiredState, paused, operationsRunningOnPausedThread,
                        queuedEvaluateRequests, pendingEvaluateRequest,
                        evalDeferred>>]_vars

\* the thread exited while two frame requests were outstanding
C6_Witness ==
    /\ lastOp = "exited"
    /\ frameDeferred[1] = FRejected("Exited")
    /\ frameDeferred[2] = FRejected("Exited")
    /\ frameEvents = <<>>
    /\ emitted = << <<"exited", "">> >>

\* C7: fetchStackFrames() enqueues a continuation and sends a frames request
\* exactly when desiredState is 'paused' and paused is true, and is rejected with
\* 'not paused' otherwise; evaluate() with another desiredState is rejected with
\* 'not paused', and neither rejected call sends or enqueues anything.
C7_NotPausedRejected ==
    [][/\ lastOp' = "fetchStackFrames" =>
            IF desiredState = "paused" /\ paused
            THEN /\ ret' = "pending"
                 /\ sent' = <<FramesReq>>
                 /\ pendingFrameRequests' = Append(pendingFrameRequests, FrameCalls + 1)
            ELSE /\ ret' = "not paused"
                 /\ sent' = <<>>
                 /\ UNCHANGED <<pendingFrameRequests, frameDeferred>>
       /\ (lastOp' = "evaluate" /\ desiredState # "paused") =>
            /\ ret' = "not paused"
            /\ sent' = <<>>
            /\ UNCHANGED <<queuedEvaluateRequests, pendingEvaluateRequest, evalDeferred>>
      ]_vars

\* fetchStackFrames() is rejected right after resume()
C7_Witness ==
    /\ lastOp = "fetchStackFrames"
    /\ ret = "not paused"
    /\ desiredState = "running"
    /\ ~paused
    /\ pendingFrameRequests = <<>>

\* C8: resume() and the step calls change no field, send nothing and emit nothing
\* when desiredState is not 'paused'.
C8_StepCallsIgnored ==
    [][(lastOp' \in StepOps /\ desiredState # "paused") =>
         /\ UNCHANGED core
         /\ UNCHANGED <<evalDeferred, frameDeferred>>
         /\ sent' = <<>>
         /\ emitted' = <<>>]_vars

\* stepOver() was called on a thread that is wanted running and assumed paused
C8_Witness ==
    /\ lastOp = "stepOver"
    /\ ret = "ignored"
    /\ desiredState = "running"
    /\ paused
    /\ operationsRunningOnPausedThread = 0

\* what the claims expect of resume() and the step calls
ExpectedLimit(name) ==
    CASE name = "resume" -> "none"
      [] name = "stepOver" -> "next"
      [] name = "stepInto" -> "step"
      [] name = "stepOut" -> "finish"
ExpectedState(name) == IF name = "resume" THEN "running" ELSE name

RunOnRunningThreadInterrupts ==
    (lastOp' = "runOnPausedThread" /\ ~paused /\ desiredState = "running")
        => sent' = <<InterruptReq>>
NothingResumedDuringOperations ==
    operationsRunningOnPausedThread' > 0
        => Types(sent') \cap {"resume", "clientEvaluate"} = {}
LastOperationFinished ==
    /\ lastOp' = "operationFinished"
    /\ startedRunning
    /\ operationsRunningOnPausedThread' = 0
    /\ NoEvaluate

\* C9 as stated: runOnPausedThread on a running thread sends one interrupt request,
\* no resume and no clientEvaluate request is sent while an operation is
\* outstanding, and the completion callback of the last operation, with no
\* evaluate pending or queued, sends one plain resume request and clears paused.
C9_AlwaysResumed ==
    [][/\ RunOnRunningThreadInterrupts
       /\ NothingResumedDuringOperations
       /\ LastOperationFinished => (sent' = <<ResumeReq("none")>> /\ ~paused')]_vars

\* C9 amended: the last completion callback resumes the thread if desiredState is
\* still 'running' when it is called.
C9_ResumedIfStillRunning ==
    [][/\ RunOnRunningThreadInterrupts
       /\ NothingResumedDuringOperations
       /\ (LastOperationFinished /\ desiredState = "running")
            => (sent' = <<ResumeReq("none")>> /\ ~paused')]_vars

\* the last operation started on a running thread has finished and the thread
\* was resumed
C9_Witness ==
    /\ lastOp = "operationFinished"
    /\ startedRunning
    /\ operationsRunningOnPausedThread = 0
    /\ desiredState = "running"
    /\ sent = <<ResumeReq("none")>>
    /\ ~paused

\* C10: resume() and the step calls on a paused thread with nothing else to do send
\* one resume request with the resumeLimit of the call, set desiredState and
\* clear paused; a paused event with reason resumeLimit, with no evaluate
\* pending, sets desiredState 'paused' and paused and emits one notification.
C10_StepRequests ==
    [][/\ \A name \in StepOps :
            (/\ lastOp' = name
             /\ desiredState = "paused"
             /\ paused
             /\ operationsRunningOnPausedThread = 0
             /\ NoEvaluate)
            => /\ sent' = <<ResumeReq(ExpectedLimit(name))>>
               /\ desiredState' = ExpectedState(name)
               /\ ~paused'
       /\ (lastOp' = "paused:resumeLimit" /\ pendingEvaluateRequest = Null)
            => /\ desiredState' = "paused"
               /\ paused'
               /\ emitted' = PausedNote("resumeLimit")]_vars

\* the step started by stepOver() has ended with a resumeLimit event
C10_Witness ==
    /\ lastOp = "paused:resumeLimit"
    /\ desiredState = "paused"
    /\ paused
    /\ emitted = PausedNote("resumeLimit")
    /\ NoEvaluate
    /\ operationsRunningOnPausedThread = 0

MessageOps == {"paused:interrupted", "paused:resumeLimit", "paused:breakpoint",
               "paused:clientEvaluated", "ignored", "newSource", "frames",
               "exited", "wrongState"}
PausedNotified == \E i \in 1..Len(emitted) : emitted[i][1] = "paused"

\* C13: a clientEvaluated event fulfills the pending request with the event's
\* value and clears it before doNext runs (a queued request is sent by the same
\* step), and 'paused' is emitted exactly when paused is still true afterwards:
\* not when a queued request was sent or the thread was resumed.
C13_EvaluatedThenReconciled ==
    [][(lastOp' = "paused:clientEvaluated" /\ pendingEvaluateRequest # Null) =>
         /\ evalDeferred'[pendingEvaluateRequest]
               = Fulfilled(evalEvents'[Len(evalEvents')])
         /\ pendingEvaluateRequest' # pendingEvaluateRequest
         /\ (queuedEvaluateRequests # <<>> /\ operationsRunningOnPausedThread = 0)
               => /\ pendingEvaluateRequest' = Head(queuedEvaluateRequests)
                  /\ sent' = <<ClientEvaluateReq(Head(queuedEvaluateRequests))>>
         /\ emitted' = (IF paused' THEN PausedNote("clientEvaluated") ELSE <<>>)
         /\ Types(sent') \cap {"resume", "clientEvaluate"} # {} => emitted' = <<>>]_vars

\* the evaluation ended on a thread that is wanted running: it was resumed and
\* nothing was emitted
C13_Witness ==
    /\ lastOp = "paused:clientEvaluated"
    /\ desiredState = "running"
    /\ sent = <<ResumeReq("none")>>
    /\ emitted = <<>>
    /\ ~paused
    /\ pendingEvaluateRequest = Null

\* C15: a message received right after an exited message changes no field, sends
\* nothing and emits nothing.
C15_SilentAfterExited ==
    [][(lastOp = "exited" /\ lastOp' \in MessageOps) =>
         /\ UNCHANGED core
         /\ UNCHANGED <<evalDeferred, frameDeferred>>
         /\ sent' = <<>>
         /\ emitted' = <<>>]_vars

\* C17: whenever a 'paused' notification is emitted, paused is true and
\* desiredState is 'paused'.
C17_NotifiedOnlyWhenPaused ==
    PausedNotified => (paused /\ desiredState = "paused")

\* C18: no promise of an evaluate call is rejected with 'Thread is running';
\* desiredState 'paused' with paused false means that an evaluate request is
\* pending, and with no operation outstanding and no request pending a
\* non-empty queue is only seen with paused true.
C18_NeverRejectedAsRunning ==
    /\ \A i \in 1..MaxEval : evalDeferred[i].why # "Thread is running"
    /\ (desiredState = "paused" /\ ~paused) => pendingEvaluateRequest # Null
    /\ (/\ operationsRunningOnPausedThread <= 0
        /\ pendingEvaluateRequest = Null
        /\ queuedEvaluateRequests # <<>>) => paused

\* doNext ran with no operation outstanding, no request pending and two requests
\* queued: the first was sent, the second is still queued
C18_Witness ==
    /\ lastOp = "operationFinished"
    /\ operationsRunningOnPausedThread = 0
    /\ sent = <<ClientEvaluateReq(1)>>
    /\ queuedEvaluateRequests = <<2>>
    /\ evalDeferred[2] = Pending

Quiescent == net.wire = <<>> /\ net.inbox = <<>>

\* C11: with no operation outstanding, no evaluate request pending and none
\* queued, paused is true exactly when desiredState is 'paused'.
C11_GravitatesToDesiredState ==
    (operationsRunningOnPausedThread = 0 /\ NoEvaluate)
        => (paused <=> desiredState = "paused")

\* C12: the paused event that answers an interrupt request sent by
\* runOnPausedThread does not make the proxy emit 'paused' with reason
\* 'interrupted'.
C12_OperationInterruptSilent ==
    [][(/\ lastOp' = "paused:interrupted"
        /\ Arrives("interrupted")
        /\ Head(net.inbox).forOp)
       => \A i \in 1..Len(emitted') : emitted'[i] # <<"paused", "interrupted">>]_vars

\* C16: with nothing in transit between the proxy and the remote thread, paused
\* is the remote thread's state.
C16_FlagIsRemoteState ==
    Quiescent => (paused <=> net.remotePaused)

\* C19: with every request handled, every message delivered, every evaluation
\* that runs ended and every completion callback called, each accepted
\* evaluate call is eventually fulfilled.
C19_EvaluateEventuallyFulfilled ==
    \A i \in 1..MaxEval :
        (evalDeferred[i].st = "pending") ~> (evalDeferred[i].st = "fulfilled")

Queued(i) == \E k \in 1..Len(queuedEvaluateRequests) : queuedEvaluateRequests[k] = i

====
